---- MODULE Spec2Model ----
(***************************************************************************)
(* Model of train_sae.py: the streaming training loop over the sharded     *)
(* activation dataset (sae_data/sae_data_<k>.pt) and the periodic          *)
(* evaluation pass over the held-out evaluation cache.                     *)
(*                                                                         *)
(* Tensors are modelled by what the claims observe of them:                *)
(*   - a partition is the sequence of the global indices of its examples,  *)
(*     so partition k of E examples is <<k*E, ..., k*E + E-1>>;            *)
(*   - the SAE parameters are the number of optimizer updates and          *)
(*     renormalizations applied to them and whether the decoder columns    *)
(*     are unit-norm;                                                      *)
(*   - the sparse codes of an evaluation sub-batch are the number of       *)
(*     nonzero entries per feature among the selected token positions.     *)
(***************************************************************************)
EXTENDS Integers, Sequences, FiniteSets, TLC

\* ------------------------------------------------------------------------
\* Bounds of the model
\* ------------------------------------------------------------------------
MaxParts == 3
MaxExamples == 4
MaxBatch == 5
MaxEvalInterval == 2
MaxEvalContexts == 3
MaxGptBatch == 2
MaxCtxTokens == 1
BlockSize == 2
NFeatures == 1

\* the renormalization period of the training loop (step % 1000 == 0)
RenormInterval == 1000

\* ------------------------------------------------------------------------
\* Input families.  A run is started either with an arbitrary small sharded
\* dataset and the smallest evaluation set, or with a fixed small sharded
\* dataset and an arbitrary small evaluation set, or with the end-to-end
\* scenario of two partitions of 100 examples and batches of 64.
\* ------------------------------------------------------------------------
BaseStream == [parts |-> 2, examples |-> 3, batch |-> 2]
BaseEval == [contexts |-> 1, gpt_batch |-> 1, tokens |-> 1]
Scenario == [parts |-> 2, examples |-> 100, batch |-> 64]

StreamGrid ==
    [parts : 1..MaxParts, examples : 1..MaxExamples, batch : 1..MaxBatch]

EvalGrid ==
    [contexts : 1..MaxEvalContexts, gpt_batch : 1..MaxGptBatch,
     tokens : 1..MaxCtxTokens]

Inputs ==
    {<<s, e>> \in (StreamGrid \cup {Scenario}) \X EvalGrid :
        s = BaseStream \/ e = BaseEval}

Features == 1..NFeatures
NoPart == -1

VARIABLES
    config,                    \* hyperparameters (lines 29-34)
    sae_data,                  \* the partition files on disk
    pc,                        \* position of the program
    step,                      \* loop variable of the training loop
    current_part_index,
    current_part,              \* partition bound to the name current_part
    offset,
    batch_start,
    batch_end,
    remaining,
    batch,
    branch,                    \* branch taken by the last batch fetch
    resident,                  \* partitions loaded and not yet released
    loads,                     \* number of torch.load calls on partitions
    served,                    \* concatenation of the batches that passed the assertion
    fetched,                   \* number of batch fetches started
    asserts,                   \* number of evaluations of the batch-length assertion
    sae,                       \* SAE parameters
    grad,                      \* state of sae.dec.weight.grad
    ops,                       \* operations of the current iteration, in order
    selected_tokens_loc,
    iter,
    feature_activation_counts,
    tally,                     \* per tallied context of the pass: the positions used
    tallied_tokens,            \* token positions tallied in the pass
    eval_passes,
    density,                   \* numerators and denominator of the last density computation
    report                     \* number of examples stated by the exit report

vars == <<config, sae_data, pc, step, current_part_index, current_part, offset,
          batch_start, batch_end, remaining, batch, branch, resident, loads,
          served, fetched, asserts, sae, grad, ops, selected_tokens_loc, iter,
          feature_activation_counts, tally, tallied_tokens, eval_passes,
          density, report>>

streamVars == <<current_part_index, current_part, offset, batch_start,
                batch_end, remaining, batch, branch, resident, loads, served,
                fetched, asserts>>

evalVars == <<iter, feature_activation_counts, tally, tallied_tokens,
              eval_passes, density>>

\* ------------------------------------------------------------------------
\* Quantities derived from the inputs
\* ------------------------------------------------------------------------
batch_size == config.batch_size
eval_interval == config.eval_interval
eval_contexts == config.eval_contexts
gpt_batch_size == config.gpt_batch_size
eval_context_tokens == config.eval_context_tokens

n_parts == sae_data.parts
examples_per_part == sae_data.examples
total_training_examples == n_parts * examples_per_part
eval_tokens == eval_contexts * eval_context_tokens
num_eval_batches == eval_contexts \div gpt_batch_size

\* mutants of TotalSteps: rounding up, and a loop that always runs once
TotalStepsCeil ==
    (total_training_examples + batch_size - 1) \div batch_size

TotalStepsAtLeastOne ==
    IF total_training_examples \div batch_size = 0
    THEN 1
    ELSE total_training_examples \div batch_size

\* range(total_training_examples // batch_size)
TotalSteps == total_training_examples \div batch_size

\* contents of partition file k: the global indices of its examples
Partition(k) == [i \in 1..examples_per_part |-> k * examples_per_part + (i - 1)]

\* Python slice index normalisation for a sequence of length n
SliceIndex(i, n) ==
    IF i < 0 THEN (IF i + n < 0 THEN 0 ELSE i + n)
    ELSE (IF i > n THEN n ELSE i)

\* Python s[start:stop]
PySlice(s, start, stop) ==
    LET lo == SliceIndex(start, Len(s))
        hi == SliceIndex(stop, Len(s))
    IN  IF lo >= hi THEN <<>> ELSE SubSeq(s, lo + 1, hi)

\* Python s[start:]
PySliceFrom(s, start) == PySlice(s, start, Len(s))

\* line 217
BatchStart ==
    step * batch_size - current_part_index * examples_per_part - offset

\* line 218
BatchEnd ==
    (step + 1) * batch_size - current_part_index * examples_per_part - offset

\* line 221
Crossing ==
    BatchEnd > examples_per_part /\ current_part_index < n_parts - 1

\* mutant of Remaining: off by one
RemainingOffByOne == examples_per_part - BatchStart - 1

\* line 223
Remaining == examples_per_part - BatchStart

\* mutant of ReleasePart: the old partition is kept
ReleasePartKeep(res, p) == res

\* line 226: del current_part; gc.collect()
ReleasePart(res, p) == res \ {p}

\* line 229
NewOffset == batch_size - remaining

\* mutant of IterationOrder: the optimizer steps before the projection
IterationOrderStepFirst ==
    <<"zero_grad", "forward", "backward", "opt_step", "project", "renorm", "log">>

\* program order of the update part of one iteration (lines 242-257)
IterationOrder ==
    <<"zero_grad", "forward", "backward", "project", "opt_step", "renorm", "log">>

NextPc(p) ==
    LET i == CHOOSE k \in 1..Len(IterationOrder) : IterationOrder[k] = p
    IN  IterationOrder[i + 1]

\* mutant of ZeroCounts: the counters of the previous pass are carried over
CarriedCounts == feature_activation_counts

\* line 263
ZeroCounts == [j \in Features |-> 0]

\* shape (dims 0 and 1) of selected_feature_acts, line 282
TallyCells == gpt_batch_size * eval_context_tokens

\* ------------------------------------------------------------------------
\* Initial state: the program has been started with its inputs
\* ------------------------------------------------------------------------
Init ==
    /\ \E inp \in Inputs, ei \in 1..MaxEvalInterval :
          /\ config = [batch_size |-> inp[1].batch,
                       eval_interval |-> ei,
                       eval_contexts |-> inp[2].contexts,
                       gpt_batch_size |-> inp[2].gpt_batch,
                       eval_context_tokens |-> inp[2].tokens]
          /\ sae_data = [parts |-> inp[1].parts, examples |-> inp[1].examples]
    /\ pc = "startup"
    /\ step = 0
    /\ current_part_index = 0
    /\ current_part = NoPart
    /\ offset = 0
    /\ batch_start = 0
    /\ batch_end = 0
    /\ remaining = 0
    /\ batch = <<>>
    /\ branch = "none"
    /\ resident = {}
    /\ loads = 0
    /\ served = <<>>
    /\ fetched = 0
    /\ asserts = 0
    /\ sae = [updates |-> 0, renorms |-> 0, unit_norm |-> FALSE]
    /\ grad = "none"
    /\ ops = <<>>
    /\ selected_tokens_loc = <<>>
    /\ iter = 0
    /\ feature_activation_counts = [j \in Features |-> 0]
    /\ tally = <<>>
    /\ tallied_tokens = 0
    /\ eval_passes = 0
    /\ density = [num |-> [j \in Features |-> 0], den |-> 0]
    /\ report = -1

\* ------------------------------------------------------------------------
\* Startup (lines 118-207): load partition 0, sample the evaluation
\* positions, build the evaluation cache, create and normalize the SAE.
\* full_loss/num_eval_batches (line 188) raises ZeroDivisionError when
\* eval_contexts < gpt_batch_size.
\* ------------------------------------------------------------------------
Startup ==
    /\ pc = "startup"
    /\ current_part_index' = 0
    /\ current_part' = 0
    /\ resident' = resident \cup {0}
    /\ loads' = loads + 1
    /\ offset' = 0
    /\ \E loc \in [1..eval_contexts -> [1..eval_context_tokens -> 0..(BlockSize - 1)]] :
          selected_tokens_loc' = loc
    /\ IF num_eval_batches = 0
       THEN /\ pc' = "crashed"
            /\ sae' = sae
       ELSE /\ pc' = "loop"
            /\ sae' = [updates |-> 0, renorms |-> 0, unit_norm |-> TRUE]
    /\ UNCHANGED <<config, sae_data, step, batch_start, batch_end, remaining,
                   batch, branch, served, fetched, asserts, grad, ops, evalVars,
                   report>>

\* line 213 (loop test) and line 313 (exit report)
LoopHead ==
    /\ pc = "loop"
    /\ IF step < TotalSteps
       THEN /\ pc' = "fetch"
            /\ report' = report
       ELSE /\ pc' = "done"
            /\ report' = (total_training_examples \div batch_size) * batch_size
    /\ UNCHANGED <<config, sae_data, step, streamVars, sae, grad, ops,
                   selected_tokens_loc, evalVars>>

\* lines 217-221, 233: the batch lies in the current partition
FetchNormal ==
    /\ pc = "fetch"
    /\ ~Crossing
    /\ batch_start' = BatchStart
    /\ batch_end' = BatchEnd
    /\ batch' = PySlice(Partition(current_part), BatchStart, BatchEnd)
    /\ branch' = "normal"
    /\ fetched' = fetched + 1
    /\ ops' = <<"fetch">>
    /\ pc' = "assert"
    /\ UNCHANGED <<config, sae_data, step, current_part_index, current_part,
                   offset, remaining, resident, loads, served, asserts, sae,
                   grad, selected_tokens_loc, evalVars, report>>

\* lines 217-225: the batch runs past the current partition; take its tail
CrossTail ==
    /\ pc = "fetch"
    /\ Crossing
    /\ batch_start' = BatchStart
    /\ batch_end' = BatchEnd
    /\ remaining' = Remaining
    /\ batch' = PySliceFrom(Partition(current_part), BatchStart)
    /\ current_part_index' = current_part_index + 1
    /\ branch' = "cross"
    /\ fetched' = fetched + 1
    /\ ops' = <<"fetch">>
    /\ pc' = "release"
    /\ UNCHANGED <<config, sae_data, step, current_part, offset, resident,
                   loads, served, asserts, sae, grad, selected_tokens_loc,
                   evalVars, report>>

\* line 226
CrossRelease ==
    /\ pc = "release"
    /\ resident' = ReleasePart(resident, current_part)
    /\ current_part' = NoPart
    /\ pc' = "load"
    /\ UNCHANGED <<config, sae_data, step, current_part_index, offset,
                   batch_start, batch_end, remaining, batch, branch, loads,
                   served, fetched, asserts, sae, grad, ops,
                   selected_tokens_loc, evalVars, report>>

\* line 227
CrossLoad ==
    /\ pc = "load"
    /\ current_part' = current_part_index
    /\ resident' = resident \cup {current_part_index}
    /\ loads' = loads + 1
    /\ pc' = "head"
    /\ UNCHANGED <<config, sae_data, step, current_part_index, offset,
                   batch_start, batch_end, remaining, batch, branch, served,
                   fetched, asserts, sae, grad, ops, selected_tokens_loc,
                   evalVars, report>>

\* lines 228-229
CrossHead ==
    /\ pc = "head"
    /\ batch' = batch \o PySlice(Partition(current_part), 0, batch_size - remaining)
    /\ offset' = NewOffset
    /\ pc' = "assert"
    /\ UNCHANGED <<config, sae_data, step, current_part_index, current_part,
                   batch_start, batch_end, remaining, branch, resident, loads,
                   served, fetched, asserts, sae, grad, ops,
                   selected_tokens_loc, evalVars, report>>

\* line 235
AssertLen ==
    /\ pc = "assert"
    /\ asserts' = asserts + 1
    /\ IF Len(batch) = batch_size
       THEN /\ pc' = IterationOrder[1]
            /\ served' = served \o batch
       ELSE /\ pc' = "aborted"
            /\ served' = served
    /\ UNCHANGED <<config, sae_data, step, current_part_index, current_part,
                   offset, batch_start, batch_end, remaining, batch, branch,
                   resident, loads, fetched, sae, grad, ops,
                   selected_tokens_loc, evalVars, report>>

\* common frame of the update part of an iteration
UpdateFrame ==
    UNCHANGED <<config, sae_data, step, streamVars, selected_tokens_loc,
                evalVars, report>>

\* line 242: optimizer.zero_grad(set_to_none=True)
ZeroGrad ==
    /\ pc = "zero_grad"
    /\ grad' = "none"
    /\ ops' = Append(ops, "zero_grad")
    /\ pc' = NextPc("zero_grad")
    /\ sae' = sae
    /\ UpdateFrame

\* line 243: loss = sae(batch)[0]
Forward ==
    /\ pc = "forward"
    /\ ops' = Append(ops, "forward")
    /\ pc' = NextPc("forward")
    /\ UNCHANGED <<sae, grad>>
    /\ UpdateFrame

\* line 244: loss.backward()
Backward ==
    /\ pc = "backward"
    /\ grad' = "raw"
    /\ ops' = Append(ops, "backward")
    /\ pc' = NextPc("backward")
    /\ sae' = sae
    /\ UpdateFrame

\* line 247: sae.dec.weight.grad = remove_parallel_component(...)
Project ==
    /\ pc = "project"
    /\ grad' = IF grad = "none" THEN "none" ELSE "projected"
    /\ ops' = Append(ops, "project")
    /\ pc' = NextPc("project")
    /\ sae' = sae
    /\ UpdateFrame

\* line 248: optimizer.step()
OptStep ==
    /\ pc = "opt_step"
    /\ sae' = [sae EXCEPT !.updates = @ + 1, !.unit_norm = FALSE]
    /\ ops' = Append(ops, "opt_step")
    /\ pc' = NextPc("opt_step")
    /\ grad' = grad
    /\ UpdateFrame

\* frame of the renormalization step; line 253 deletes the batch
RenormFrame ==
    /\ batch' = <<>>
    /\ UNCHANGED <<config, sae_data, step, current_part_index, current_part,
                   offset, batch_start, batch_end, remaining, branch, resident,
                   loads, served, fetched, asserts, grad, selected_tokens_loc,
                   evalVars, report>>

\* lines 249-253, step % 1000 == 0
Renormalize ==
    /\ pc = "renorm"
    /\ step % RenormInterval = 0
    /\ sae' = [sae EXCEPT !.renorms = @ + 1, !.unit_norm = TRUE]
    /\ ops' = Append(ops, "renorm")
    /\ pc' = NextPc("renorm")
    /\ RenormFrame

\* lines 249, 253, step % 1000 != 0
SkipRenormalize ==
    /\ pc = "renorm"
    /\ step % RenormInterval # 0
    /\ pc' = NextPc("renorm")
    /\ UNCHANGED <<sae, ops>>
    /\ RenormFrame

\* the contexts held by the evaluation cache (lines 174-184)
Storage == [c \in 1..(num_eval_batches * gpt_batch_size) |-> c - 1]

\* line 113: slice_fn
SliceFn(storage) ==
    PySlice(storage, iter * gpt_batch_size, (iter + 1) * gpt_batch_size)

\* line 282: the token positions read for row i of the sub-batch
RowPositions(i) == selected_tokens_loc[iter + 1]

\* lines 257-263
EvalBegin ==
    /\ pc = "log"
    /\ step % eval_interval = 0
    /\ feature_activation_counts' = ZeroCounts
    /\ iter' = 0
    /\ tally' = <<>>
    /\ tallied_tokens' = 0
    /\ eval_passes' = eval_passes + 1
    /\ ops' = Append(ops, "eval")
    /\ pc' = "eval_batch"
    /\ UNCHANGED <<config, sae_data, step, streamVars, sae, grad,
                   selected_tokens_loc, density, report>>

\* line 257, step % eval_interval != 0: next iteration
SkipEval ==
    /\ pc = "log"
    /\ step % eval_interval # 0
    /\ step' = step + 1
    /\ pc' = "loop"
    /\ UNCHANGED <<config, sae_data, streamVars, sae, grad, ops,
                   selected_tokens_loc, evalVars, report>>

\* lines 265-292: one sub-batch of the evaluation pass.  The sparse codes
\* are any tensor of shape (gpt_batch_size, block_size, n_features); their
\* selection has TallyCells entries per feature.
EvalBatch ==
    /\ pc = "eval_batch"
    /\ iter < num_eval_batches
    /\ \E nonzero \in [Features -> 0..TallyCells] :
          feature_activation_counts' =
              [j \in Features |-> feature_activation_counts[j] + nonzero[j]]
    /\ tally' = tally \o
          [i \in 1..gpt_batch_size |->
              [context |-> SliceFn(Storage)[i], positions |-> RowPositions(i)]]
    /\ tallied_tokens' = tallied_tokens + TallyCells
    /\ iter' = iter + 1
    /\ UNCHANGED <<config, sae_data, pc, step, streamVars, sae, grad, ops,
                   selected_tokens_loc, eval_passes, density, report>>

\* lines 294-311: means, density, report; next iteration
EvalEnd ==
    /\ pc = "eval_batch"
    /\ iter >= num_eval_batches
    /\ density' = [num |-> feature_activation_counts, den |-> eval_tokens]
    /\ step' = step + 1
    /\ pc' = "loop"
    /\ UNCHANGED <<config, sae_data, streamVars, sae, grad, ops,
                   selected_tokens_loc, iter, feature_activation_counts, tally,
                   tallied_tokens, eval_passes, report>>

Next ==
    \/ Startup
    \/ LoopHead
    \/ FetchNormal
    \/ CrossTail
    \/ CrossRelease
    \/ CrossLoad
    \/ CrossHead
    \/ AssertLen
    \/ ZeroGrad
    \/ Forward
    \/ Backward
    \/ Project
    \/ OptStep
    \/ Renormalize
    \/ SkipRenormalize
    \/ EvalBegin
    \/ SkipEval
    \/ EvalBatch
    \/ EvalEnd

Spec == Init /\ [][Next]_vars

\* the program is a single sequential process that always takes its next step
FairSpec == Spec /\ WF_vars(Next)

\* ------------------------------------------------------------------------
\* Properties
\* ------------------------------------------------------------------------
\* the global indices a, a+1, ..., b-1 in order
Ids(a, b) == [i \in 1..(b - a) |-> a + i - 1]

IsPrefix(s, t) == Len(s) <= Len(t) /\ SubSeq(t, 1, Len(s)) = s

\* floor(P*E/B)
FloorSteps == (sae_data.parts * sae_data.examples) \div config.batch_size

\* the operations one iteration must perform at step s, in order
ExpectedOps(s) ==
    <<"fetch", "zero_grad", "forward", "backward", "project", "opt_step">>
    \o (IF s % 1000 = 0 THEN <<"renorm">> ELSE <<>>)
    \o (IF s % config.eval_interval = 0 THEN <<"eval">> ELSE <<>>)

\* C1: with P >= 2 partitions and 1 <= B <= E, the batch of step s is the
\* global index range [s*B, (s+1)*B), and the batches of a complete run
\* concatenate to the first floor(P*E/B)*B examples of the dataset.
C1_BatchesAreTheConcatenation ==
    (sae_data.parts >= 2 /\ config.batch_size <= sae_data.examples) =>
        /\ (pc = "assert" =>
               batch = Ids(step * config.batch_size, (step + 1) * config.batch_size))
        /\ (pc = "done" => served = Ids(0, FloorSteps * config.batch_size))

\* C2: in the scenario of 2 partitions of 100 examples and batch size 64 the
\* batch of step 1 is partition 0[64:100] then partition 1[0:28]; at step 2
\* the boundary has been crossed exactly once and the batch starts at offset
\* 28 of partition 1, being partition 1[28:92] (global indices 128..191).
C2_ScenarioThirdBatch ==
    (sae_data = [parts |-> 2, examples |-> 100] /\ config.batch_size = 64) =>
        /\ (pc = "assert" /\ step = 1 => batch = Ids(64, 100) \o Ids(100, 128))
        /\ (pc = "assert" /\ step = 2 =>
               /\ loads - 1 = 1
               /\ batch_start = 28
               /\ batch = Ids(128, 192))

\* C3: a run that enters the training loop ends in the done state or at the
\* batch-length assertion; it is done after exactly floor(P*E/B) updates and
\* never fetches or updates more than floor(P*E/B) times.
C3_Terminates ==
    /\ (pc = "loop") ~> (pc \in {"done", "aborted"})
    /\ [](pc = "done" => (step = FloorSteps /\ sae.updates = FloorSteps))
    /\ [](fetched <= FloorSteps /\ sae.updates <= FloorSteps)

C3_Witness ==
    /\ pc = "done"
    /\ sae.updates = FloorSteps
    /\ FloorSteps >= 2
    /\ (sae_data.parts * sae_data.examples) % config.batch_size # 0

\* C4: at most 2 partitions are resident; outside the release/load window of
\* a crossing exactly one partition is resident and it is partition
\* current_part_index.
C4_ResidentPartitions ==
    /\ Cardinality(resident) <= 2
    /\ (pc \notin {"startup", "release", "load"} =>
           (resident = {current_part_index} /\ current_part = current_part_index))

C4_Witness ==
    /\ pc = "loop"
    /\ loads >= 2
    /\ current_part_index >= 1
    /\ resident = {current_part_index}

\* C5: the operations of an iteration occur in the order fetch, zero
\* gradients, forward, backward, project, optimizer step, renormalize (only
\* when step % 1000 = 0), evaluate (only when step % eval_interval = 0); the
\* optimizer steps on a projected gradient and an evaluation pass sees the
\* parameters after the update of its iteration.
C5_IterationOrder ==
    /\ (pc \in {"loop", "fetch", "done"} /\ step > 0 => ops = ExpectedOps(step - 1))
    /\ (pc \notin {"loop", "fetch", "done"} => IsPrefix(ops, ExpectedOps(step)))
    /\ (pc = "opt_step" => (grad = "projected" /\ sae.updates = step))
    /\ (pc \in {"renorm", "log", "eval_batch"} => sae.updates = step + 1)

C5_Witness ==
    /\ pc = "loop"
    /\ step >= 2
    /\ ops = <<"fetch", "zero_grad", "forward", "backward", "project", "opt_step", "eval">>
    /\ sae.renorms = 1

\* C6: every context tallied in an evaluation pass is tallied at the token
\* positions sampled for that context.
C6_TallyUsesOwnPositions ==
    \A k \in 1..Len(tally) :
        tally[k].positions = selected_tokens_loc[tally[k].context + 1]

\* C7: after any evaluation pass every feature's count is at most
\* eval_contexts * eval_context_tokens, so the density is at most 1.
C7_DensityIsProportion ==
    (eval_passes >= 1 /\ pc # "eval_batch") =>
        \A j \in Features :
            /\ feature_activation_counts[j] <=
                   config.eval_contexts * config.eval_context_tokens
            /\ density.num[j] <= density.den

C7_Witness ==
    /\ eval_passes >= 2
    /\ pc = "loop"
    /\ \E j \in Features :
          /\ feature_activation_counts[j] =
                 config.eval_contexts * config.eval_context_tokens
          /\ density.num[j] = density.den

\* C8: with eval_contexts >= gpt_batch_size the density denominator of a
\* pass equals the number of token positions tallied in the pass, which is
\* (sub-batches evaluated) * gpt_batch_size * eval_context_tokens.
C8_DenominatorIsTalliedTokens ==
    (config.eval_contexts >= config.gpt_batch_size /\ eval_passes >= 1 /\ pc = "loop") =>
        /\ tallied_tokens = iter * config.gpt_batch_size * config.eval_context_tokens
        /\ density.den = tallied_tokens

\* C9: when P*E < batch_size nothing is fetched, no further partition is
\* loaded, no evaluation pass runs, the assertion is not evaluated, and the
\* done state has the freshly initialized parameters and reports 0 examples.
C9_ZeroSteps ==
    (sae_data.parts * sae_data.examples < config.batch_size) =>
        /\ pc \in {"startup", "crashed", "loop", "done"}
        /\ fetched = 0
        /\ loads <= 1
        /\ eval_passes = 0
        /\ asserts = 0
        /\ (pc = "done" =>
               /\ sae = [updates |-> 0, renorms |-> 0, unit_norm |-> TRUE]
               /\ report = 0)

C9_Witness ==
    /\ sae_data.parts * sae_data.examples < config.batch_size
    /\ pc = "done"
    /\ report = 0
    /\ sae.unit_norm

\* C10: with 1 <= B <= E the batch-length assertion never fails, batch_start
\* stays in 0..E, the normal branch has batch_end <= E, a crossing takes at
\* most E examples of the new partition, and current_part_index stays in
\* 0..P-1 and changes only by +1, in the crossing branch.
C10_AssertionNeverFails ==
    /\ [](config.batch_size <= sae_data.examples =>
           /\ pc # "aborted"
           /\ (pc = "assert" => Len(batch) = config.batch_size)
           /\ 0 <= batch_start /\ batch_start <= sae_data.examples
           /\ (branch = "normal" => batch_end <= sae_data.examples)
           /\ (branch = "cross" /\ pc = "assert" =>
                  (0 <= offset /\ offset <= sae_data.examples
                   /\ Len(batch) - remaining = offset))
           /\ current_part_index \in 0..(sae_data.parts - 1))
    /\ [][(config.batch_size <= sae_data.examples
            /\ current_part_index' # current_part_index) =>
              (/\ current_part_index' = current_part_index + 1
               /\ pc = "fetch"
               /\ batch_end' > sae_data.examples
               /\ branch' = "cross")]_vars

C10_Witness ==
    /\ config.batch_size <= sae_data.examples
    /\ pc = "done"
    /\ loads >= 3
    /\ asserts = FloorSteps

====
